---- MODULE Spec2Model ----
(***************************************************************************)
(* Model of plaso/parsers/system_accounting.py: the OpenBSD system         *)
(* accounting parser (OpenBSDSystemAccountingParser) and its helpers.      *)
(*                                                                         *)
(* Numbers.  Python integers are unbounded; the model checker's are        *)
(* 32-bit.  The shifted comp_t mantissa reaches 8191 * 8^7, so it is kept  *)
(* in two limbs (hi * LimbBase + lo).  A Python float that is an exact     *)
(* multiple of 1/64 is kept as [whole, frac] = whole + frac/64.            *)
(*                                                                         *)
(* Names.  ParseFileObject uses names the module never binds (struct,      *)
(* datetime, struct_format, convert_comp_t, time_conversion, parse_flags,  *)
(* file_path) and a try: with no handler.  The model gives every statement *)
(* the meaning of the object the name evidently stands for: the standard   *)
(* struct and datetime modules, self._STRUCT_FORMAT, self._Convert_comp_t, *)
(* self._TimeConverstion, self._ParseStructFlags; a try: with no handler   *)
(* catches nothing.  file_path is no parameter of the method: the file it  *)
(* names is an input of its own (path_data), distinct from file_object.    *)
(***************************************************************************)
EXTENDS Integers, Sequences, FiniteSets, TLC

VARIABLES
  pc,            \* position in the operation being run
  filename,      \* parser_mediator.GetFilename(), a sequence of characters
  fo_data,       \* content of the file_object argument
  fo_pos,        \* position of file_object (-1: never positioned)
  path_data,     \* content of the file that file_path names
  path_exists,   \* whether open(file_path) finds that file
  file_state,    \* the handle `file`: "unopened", "open", "closed"
  file_pos,      \* read cursor of `file`
  encoded_data,  \* last result of file.read: [off, len]
  decoded_data,  \* last result of struct.unpack
  raised,        \* exception leaving ParseFileObject, or "none"
  events,        \* event data handed to parser_mediator.ProduceEventData
  offsets,       \* history: the offset each event of `events` was read at
  warnings,      \* extraction / recovery warnings handed to the mediator
  reads,         \* history: number of file.read calls
  comp_t,        \* input of _Convert_comp_t
  converted_t,   \* its result and the iterations of its loop
  time_string,   \* result of _TimeConverstion
  flags_value,   \* input of _ParseStructFlags
  flags_string   \* its result

vars == <<pc, filename, fo_data, fo_pos, path_data, path_exists, file_state,
          file_pos, encoded_data, decoded_data, raised, events, offsets,
          warnings, reads, comp_t, converted_t, time_string, flags_value,
          flags_string>>

parser_vars == <<filename, fo_data, fo_pos, path_data, path_exists,
                 file_state, file_pos, encoded_data, decoded_data, raised,
                 events, offsets, warnings, reads>>

helper_vars == <<comp_t, converted_t, time_string, flags_value, flags_string>>

(***************************************************************************)
(* Bounds of the model.                                                    *)
(***************************************************************************)
MaxRecords == 2
FlagBits == 12

(***************************************************************************)
(* Program constants.                                                      *)
(***************************************************************************)
_MINIMUM_FILE_SIZE == 64
_AHZ == 64
_SECSPERHOUR == 3600
_SECSPERMIN == 60
MantissaMask == 8191
ExponentShift == 13
CompBits == 16

Min(a, b) == IF a < b THEN a ELSE b

RECURSIVE Pow(_, _)
Pow(b, n) == IF n = 0 THEN 1 ELSE b * Pow(b, n - 1)

RECURSIVE BitAnd(_, _)
BitAnd(a, b) ==
  IF a = 0 \/ b = 0 THEN 0
  ELSE (a % 2) * (b % 2) + 2 * BitAnd(a \div 2, b \div 2)

ShiftRight(a, n) == a \div Pow(2, n)

LimbBase == Pow(2, 20)

(***************************************************************************)
(* Text helpers: Python's zero-padded decimal fields.                      *)
(***************************************************************************)
Digit(d) ==
  CASE d = 0 -> "0" [] d = 1 -> "1" [] d = 2 -> "2" [] d = 3 -> "3"
    [] d = 4 -> "4" [] d = 5 -> "5" [] d = 6 -> "6" [] d = 7 -> "7"
    [] d = 8 -> "8" [] d = 9 -> "9"

RECURSIVE Decimal(_)
Decimal(n) == IF n < 10 THEN Digit(n) ELSE Decimal(n \div 10) \o Digit(n % 10)

RECURSIVE ZeroPad(_, _)
ZeroPad(s, width) == IF Len(s) >= width THEN s ELSE ZeroPad("0" \o s, width)

\* round-half-to-even of num/den, the rounding of the f presentation type
RoundHalfEven(num, den) ==
  LET q == num \div den
      r == num % den
  IN  IF 2 * r < den THEN q
      ELSE IF 2 * r > den THEN q + 1
      ELSE IF q % 2 = 0 THEN q ELSE q + 1

(***************************************************************************)
(* _Convert_comp_t                                                         *)
(***************************************************************************)
\* mutant: the mantissa shifted by two bits instead of three
ShiftLeft3_by2(x) ==
  [hi |-> x.hi * 4 + (x.lo * 4) \div LimbBase, lo |-> (x.lo * 4) % LimbBase]

\* converted_t <<= 3 on the two-limb integer
ShiftLeft3(x) ==
  [hi |-> x.hi * 8 + (x.lo * 8) \div LimbBase, lo |-> (x.lo * 8) % LimbBase]

\* while comp_t: comp_t -= 1; converted_t <<= 3
RECURSIVE CompLoop(_, _, _)
CompLoop(c, conv, n) ==
  IF c # 0 THEN CompLoop(c - 1, ShiftLeft3(conv), n + 1)
  ELSE [ticks |-> conv, iterations |-> n]

\* converted_t / self._AHZ: true division; the dividend is below 2^53 and
\* the divisor a power of two, so the float is the exact quotient
DivideByAHZ(x) ==
  [whole |-> x.hi * (LimbBase \div _AHZ) + x.lo \div _AHZ, frac |-> x.lo % _AHZ]

Convert_comp_t_run(c) ==
  LET mantissa == BitAnd(c, MantissaMask)
      run == CompLoop(ShiftRight(c, ExponentShift), [hi |-> 0, lo |-> mantissa], 0)
  IN  [result |-> DivideByAHZ(run.ticks), iterations |-> run.iterations]

Convert_comp_t(c) == Convert_comp_t_run(c).result

(***************************************************************************)
(* _TimeConverstion.  total_secs = whole + frac/64.  Every quotient below  *)
(* is a float within 2^-52 relative of the exact value and at least        *)
(* 1/460800 away from a rounding boundary unless it is exactly on one, so  *)
(* the f format rounds the exact quotient, halves to even.                 *)
(***************************************************************************)
\* hours = total_secs / self._SECSPERHOUR, printed with 02.0f.  The whole
\* hours q are split off to keep the numbers small; a quotient exactly
\* halfway goes to the even neighbour of q + 1/2.
HoursField(t) ==
  LET q == t.whole \div _SECSPERHOUR
      r == (t.whole % _SECSPERHOUR) * _AHZ + t.frac
  IN  q + RoundHalfEven(r, _SECSPERHOUR * _AHZ) +
      (IF 2 * r = _SECSPERHOUR * _AHZ /\ q % 2 = 1 THEN 1 ELSE 0)

\* minutes = math.fmod(total_secs, self._SECSPERHOUR) / self._SECSPERMIN,
\* printed with 02.0f
MinutesField(t) ==
  RoundHalfEven((t.whole % _SECSPERHOUR) * _AHZ + t.frac, _SECSPERMIN * _AHZ)

\* seconds = math.fmod(total_secs, self._SECSPERMIN), printed with 05.2f:
\* the field in hundredths of a second
SecondsField(t) ==
  RoundHalfEven(((t.whole % _SECSPERMIN) * _AHZ + t.frac) * 100, _AHZ)

TimeFields(t) ==
  [hours |-> HoursField(t), minutes |-> MinutesField(t), seconds |-> SecondsField(t)]

TimeConverstion(t) ==
  LET f == TimeFields(t)
  IN  ZeroPad(Decimal(f.hours), 2) \o ":" \o ZeroPad(Decimal(f.minutes), 2) \o ":"
      \o ZeroPad(Decimal(f.seconds \div 100) \o "." \o
                 ZeroPad(Decimal(f.seconds % 100), 2), 5)

(***************************************************************************)
(* _ParseStructFlags                                                       *)
(***************************************************************************)
\* _ACCOUNTING_FLAGS, in the insertion order a dict iterates in
_ACCOUNTING_FLAGS ==
  << [bit |-> 1,    description |-> "fork but not exec"],
     [bit |-> 4,    description |-> "system call or stack mapping violation"],
     [bit |-> 8,    description |-> "dumped core"],
     [bit |-> 16,   description |-> "killed by a signal"],
     [bit |-> 32,   description |-> "killed due to pledge violation"],
     [bit |-> 64,   description |-> "memory access violation"],
     [bit |-> 128,  description |-> "unveil access violation"],
     [bit |-> 512,  description |-> "killed by syscall pin violation"],
     [bit |-> 1024, description |-> "BT CFI violation"] >>

\* mutant: the mask compared with the bit instead of tested against it
FlagTest_equal(value, bit) == value = bit

\* if flags_value & flag_bit:
FlagTest(value, bit) == BitAnd(value, bit) # 0

\* for flag_bit, description in self._ACCOUNTING_FLAGS.items(): ... append
RECURSIVE SetFlags(_, _, _)
SetFlags(value, i, set_flags) ==
  IF i > Len(_ACCOUNTING_FLAGS) THEN set_flags
  ELSE SetFlags(value, i + 1,
                IF FlagTest(value, _ACCOUNTING_FLAGS[i].bit)
                THEN Append(set_flags, _ACCOUNTING_FLAGS[i].description)
                ELSE set_flags)

\* ', '.join(set_flags)
RECURSIVE Join(_, _)
Join(sep, parts) ==
  IF parts = <<>> THEN ""
  ELSE IF Len(parts) = 1 THEN parts[1]
  ELSE parts[1] \o sep \o Join(sep, Tail(parts))

ParseStructFlags(value) == Join(", ", SetFlags(value, 1, <<>>))

(***************************************************************************)
(* The helpers run on their own: one conversion, then one formatting.      *)
(***************************************************************************)
NoFile == [recs |-> <<>>, tail |-> 0]
NoSlice == [off |-> 0, len |-> 0]
NoFloat == [whole |-> 0, frac |-> 0]

ParserIdle ==
  /\ filename = <<>>
  /\ fo_data = NoFile /\ fo_pos = -1
  /\ path_data = NoFile /\ path_exists = FALSE
  /\ file_state = "unopened" /\ file_pos = 0
  /\ encoded_data = NoSlice /\ decoded_data = <<>>
  /\ raised = "none" /\ events = <<>> /\ offsets = <<>>
  /\ warnings = <<>> /\ reads = 0

InitComp ==
  /\ ParserIdle
  /\ pc = "comp_start"
  /\ comp_t \in 0 .. Pow(2, CompBits) - 1
  /\ converted_t = [result |-> NoFloat, iterations |-> 0]
  /\ time_string = ""
  /\ flags_value = 0 /\ flags_string = ""

ConvertCompT ==
  /\ pc = "comp_start"
  /\ converted_t' = Convert_comp_t_run(comp_t)
  /\ pc' = "comp_done"
  /\ UNCHANGED <<parser_vars, comp_t, time_string, flags_value, flags_string>>

FormatTime ==
  /\ pc = "comp_done"
  /\ time_string' = TimeConverstion(converted_t.result)
  /\ pc' = "time_done"
  /\ UNCHANGED <<parser_vars, comp_t, converted_t, flags_value, flags_string>>

NextComp == ConvertCompT \/ FormatTime

SpecComp == InitComp /\ [][NextComp]_vars

InitFlags ==
  /\ ParserIdle
  /\ pc = "flags_start"
  /\ flags_value \in {low + high : low \in 0 .. Pow(2, FlagBits) - 1,
                                     high \in {0, Pow(2, 20), Pow(2, 30)}}
  /\ flags_string = "?"
  /\ comp_t = 0 /\ converted_t = [result |-> NoFloat, iterations |-> 0]
  /\ time_string = ""

ParseFlags ==
  /\ pc = "flags_start"
  /\ flags_string' = ParseStructFlags(flags_value)
  /\ pc' = "flags_done"
  /\ UNCHANGED <<parser_vars, comp_t, converted_t, time_string, flags_value>>

NextFlags == ParseFlags

SpecFlags == InitFlags /\ [][NextFlags]_vars

(***************************************************************************)
(* The filename gate: self._FILENAME_FORMAT.match(filename).               *)
(***************************************************************************)
\* where the greedy .* stops: at the first newline or at the end
RECURSIVE DotStarEnd(_, _)
DotStarEnd(name, i) ==
  IF i > Len(name) \/ name[i] = "\n" THEN i - 1 ELSE DotStarEnd(name, i + 1)

\* re.compile(r'acct(\..*)?').match(name): the pattern is tried at position
\* 0 only and need not reach the end of the name
FilenameMatch(name) ==
  IF Len(name) >= 4 /\ SubSeq(name, 1, 4) = <<"a", "c", "c", "t">>
  THEN [matched |-> TRUE,
        end |-> IF Len(name) >= 5 /\ name[5] = "." THEN DotStarEnd(name, 6) ELSE 4]
  ELSE [matched |-> FALSE, end |-> 0]

(***************************************************************************)
(* The record layout: struct.calcsize and struct.unpack in native mode.    *)
(***************************************************************************)
_STRUCT_FORMAT ==
  << [code |-> "s", count |-> 24], [code |-> "H", count |-> 1],
     [code |-> "H", count |-> 1],  [code |-> "H", count |-> 1],
     [code |-> "H", count |-> 1],  [code |-> "Q", count |-> 1],
     [code |-> "I", count |-> 1],  [code |-> "I", count |-> 1],
     [code |-> "I", count |-> 1],  [code |-> "i", count |-> 1],
     [code |-> "I", count |-> 1],  [code |-> "I", count |-> 1] >>

\* size, which is also the alignment, of a native format character
NativeSize(code) ==
  CASE code = "s" -> 1 [] code = "H" -> 2 [] code = "I" -> 4
    [] code = "i" -> 4 [] code = "Q" -> 8

AlignUp(offset, align) == ((offset + align - 1) \div align) * align

RECURSIVE CalcSizeFrom(_, _, _)
CalcSizeFrom(format, i, offset) ==
  IF i > Len(format) THEN offset
  ELSE CalcSizeFrom(format, i + 1,
         AlignUp(offset, NativeSize(format[i].code))
           + NativeSize(format[i].code) * format[i].count)

\* _STRUCT_SIZE = struct.calcsize(self._STRUCT_FORMAT)
_STRUCT_SIZE == CalcSizeFrom(_STRUCT_FORMAT, 1, 0)

(***************************************************************************)
(* Streams.  A stream is a run of packed records followed by `tail` more   *)
(* bytes, fewer than one record.  A 64-bit starting_time is kept in two    *)
(* limbs, hi * 2^30 + lo.                                                  *)
(***************************************************************************)
TimeBase == Pow(2, 30)

NameBytes(bytes) == bytes \o [i \in 1 .. (24 - Len(bytes)) |-> 0]

\* the record of the test file: `ls`, started 2024-04-22T05:18:06Z
RecLs ==
  [command_name |-> NameBytes(<<108, 115>>), user_time |-> 0, system_time |-> 0,
   elapsed_time |-> 0, count_io_blocks |-> 0,
   starting_time |-> [hi |-> 1, lo |-> 1713763086 - TimeBase],
   user_id |-> 0, group_id |-> 0, avg_mem_usage |-> 0, controlling_tty |-> 3072,
   process_id |-> 66336, flags |-> 0]

RecSh ==
  [command_name |-> NameBytes(<<115, 104>>), user_time |-> 3808,
   system_time |-> 19983, elapsed_time |-> 65535, count_io_blocks |-> 8200,
   starting_time |-> [hi |-> 0, lo |-> 86399],
   user_id |-> 1000, group_id |-> 1000, avg_mem_usage |-> 12,
   controlling_tty |-> -1, process_id |-> 4242, flags |-> 25]

\* a record whose starting_time is the first second of the year 10000
RecLate ==
  [command_name |-> NameBytes(<<108, 115>>), user_time |-> 64, system_time |-> 0,
   elapsed_time |-> 128, count_io_blocks |-> 0,
   starting_time |-> [hi |-> 235, lo |-> 1072972160],
   user_id |-> 0, group_id |-> 0, avg_mem_usage |-> 0, controlling_tty |-> 3072,
   process_id |-> 7, flags |-> 2]

Kinds == {RecLs, RecSh, RecLate}

Garbage == [RecLs EXCEPT !.process_id = 0]

Streams ==
  {[recs |-> r, tail |-> t] :
     r \in UNION {[1 .. n -> Kinds] : n \in 0 .. MaxRecords},
     t \in 0 .. (_STRUCT_SIZE - 1)}

DataLen(d) == _STRUCT_SIZE * Len(d.recs) + d.tail

\* file.read(size) at position pos: the bytes [pos, pos + size) that exist
FileRead(d, pos, size) == [off |-> pos, len |-> Min(size, DataLen(d) - pos)]

\* struct.unpack on a full window of the stream
RecordAt(d, off) ==
  IF off % _STRUCT_SIZE = 0 /\ off \div _STRUCT_SIZE < Len(d.recs)
  THEN d.recs[off \div _STRUCT_SIZE + 1]
  ELSE Garbage

(***************************************************************************)
(* Field decoding, lines 138-144.                                          *)
(***************************************************************************)
\* iso-8859-1 maps a byte to the character of the same code point; the
\* table holds the bytes that occur in Kinds
Latin1(b) == CASE b = 104 -> "h" [] b = 108 -> "l" [] b = 115 -> "s" [] OTHER -> "?"

\* command_name.split(b'\x00')[0].decode(self._TEXT_ENCODING)
RECURSIVE DecodeName(_, _)
DecodeName(bytes, i) ==
  IF i > Len(bytes) \/ bytes[i] = 0 THEN ""
  ELSE Latin1(bytes[i]) \o DecodeName(bytes, i + 1)

\* datetime.utcfromtimestamp raises above 9999-12-31T23:59:59
MaxTimestamp == [hi |-> 235, lo |-> 1072972159]

TimestampInRange(ts) ==
  ts.hi < MaxTimestamp.hi \/ (ts.hi = MaxTimestamp.hi /\ ts.lo <= MaxTimestamp.lo)

\* days since the epoch and second of the day of an in-range timestamp
DaysAndSeconds(ts) ==
  LET low == ts.hi * (TimeBase % 86400) + ts.lo
  IN  [days |-> ts.hi * (TimeBase \div 86400) + low \div 86400,
       secs |-> low % 86400]

\* the proleptic Gregorian date of a day number
CivilFromDays(days) ==
  LET z == days + 719468
      era == z \div 146097
      doe == z % 146097
      yoe == (doe - doe \div 1460 + doe \div 36524 - doe \div 146096) \div 365
      doy == doe - (365 * yoe + yoe \div 4 - yoe \div 100)
      mp == (5 * doy + 2) \div 153
      d == doy - (153 * mp + 2) \div 5 + 1
      m == IF mp < 10 THEN mp + 3 ELSE mp - 9
  IN  [year |-> yoe + era * 400 + (IF m <= 2 THEN 1 ELSE 0), month |-> m, day |-> d]

\* datetime.datetime.utcfromtimestamp(starting_time).isoformat() + 'Z'
IsoFormatZ(ts) ==
  LET ds == DaysAndSeconds(ts)
      c == CivilFromDays(ds.days)
  IN  ZeroPad(Decimal(c.year), 4) \o "-" \o ZeroPad(Decimal(c.month), 2) \o "-"
      \o ZeroPad(Decimal(c.day), 2) \o "T"
      \o ZeroPad(Decimal(ds.secs \div 3600), 2) \o ":"
      \o ZeroPad(Decimal((ds.secs % 3600) \div 60), 2) \o ":"
      \o ZeroPad(Decimal(ds.secs % 60), 2) \o "Z"

\* the event data built from one unpacked record, lines 138-158
EventData(r) ==
  [data_type |-> "openbsd:system_accounting:struct",
   command_name |-> DecodeName(r.command_name, 1),
   user_time |-> TimeConverstion(Convert_comp_t(r.user_time)),
   system_time |-> TimeConverstion(Convert_comp_t(r.system_time)),
   elapsed_time |-> TimeConverstion(Convert_comp_t(r.elapsed_time)),
   count_io_blocks |-> Convert_comp_t(r.count_io_blocks),
   starting_time |-> IsoFormatZ(r.starting_time),
   uid |-> r.user_id, gid |-> r.group_id,
   average_memory_usage |-> r.avg_mem_usage,
   tty |-> r.controlling_tty, pid |-> r.process_id,
   flags |-> ParseStructFlags(r.flags)]

(***************************************************************************)
(* ParseFileObject, one action per step of lines 120-159.                  *)
(***************************************************************************)
Chars(n) ==
  CASE n = "acct" -> <<"a", "c", "c", "t">>
    [] n = "acct.0" -> <<"a", "c", "c", "t", ".", "0">>
    [] n = "acct.3" -> <<"a", "c", "c", "t", ".", "3">>
    [] n = "acct2" -> <<"a", "c", "c", "t", "2">>
    [] n = "account" -> <<"a", "c", "c", "o", "u", "n", "t">>
    [] n = "backup.acct" -> <<"b", "a", "c", "k", "u", "p", ".", "a", "c", "c", "t">>
    [] n = "" -> <<>>

Filenames ==
  {Chars(n) : n \in {"acct", "acct.0", "acct.3", "acct2", "account", "backup.acct", ""}}

HelpersIdle ==
  /\ comp_t = 0 /\ converted_t = [result |-> NoFloat, iterations |-> 0]
  /\ time_string = "" /\ flags_value = 0 /\ flags_string = ""

Init ==
  /\ pc = "gate"
  /\ filename \in Filenames
  /\ path_data \in Streams
  /\ path_exists \in BOOLEAN
  /\ fo_data \in {path_data} \cup {[recs |-> <<k>>, tail |-> 0] : k \in Kinds}
  /\ fo_pos = -1
  /\ file_state = "unopened" /\ file_pos = 0
  /\ encoded_data = NoSlice /\ decoded_data = <<>>
  /\ raised = "none" /\ events = <<>> /\ offsets = <<>>
  /\ warnings = <<>> /\ reads = 0
  /\ HelpersIdle

\* mutant: the file closed after the loop only, not when an exception leaves
WithExit_noclose(exception) == IF exception THEN "open" ELSE "closed"

\* the state of `file` once the with block is left, by break or by an
\* exception: the context manager closes it either way
WithExit(exception) == "closed"

\* lines 120-122
FilenameGate ==
  /\ pc = "gate"
  /\ IF ~FilenameMatch(filename).matched
     THEN /\ raised' = "WrongParser"
          /\ pc' = "raised"
     ELSE /\ pc' = "seek"
          /\ UNCHANGED raised
  /\ UNCHANGED <<filename, fo_data, fo_pos, path_data, path_exists, file_state,
                 file_pos, encoded_data, decoded_data, events, offsets,
                 warnings, reads, helper_vars>>

\* line 124
SeekFileObject ==
  /\ pc = "seek"
  /\ fo_pos' = 0
  /\ pc' = "open"
  /\ UNCHANGED <<filename, fo_data, path_data, path_exists, file_state,
                 file_pos, encoded_data, decoded_data, raised, events, offsets,
                 warnings, reads, helper_vars>>

\* lines 127-129
OpenFile ==
  /\ pc = "open"
  /\ IF path_exists
     THEN /\ file_state' = "open"
          /\ file_pos' = 0
          /\ pc' = "read"
          /\ UNCHANGED raised
     ELSE /\ raised' = "FileNotFoundError"
          /\ pc' = "raised"
          /\ UNCHANGED <<file_state, file_pos>>
  /\ UNCHANGED <<filename, fo_data, fo_pos, path_data, path_exists,
                 encoded_data, decoded_data, events, offsets, warnings, reads,
                 helper_vars>>

\* line 131
ReadRecord ==
  /\ pc = "read"
  /\ encoded_data' = FileRead(path_data, file_pos, _STRUCT_SIZE)
  /\ file_pos' = file_pos + encoded_data'.len
  /\ reads' = reads + 1
  /\ pc' = "test"
  /\ UNCHANGED <<filename, fo_data, fo_pos, path_data, path_exists, file_state,
                 decoded_data, raised, events, offsets, warnings, helper_vars>>

\* lines 132-133
TestEmpty ==
  /\ pc = "test"
  /\ IF encoded_data.len = 0
     THEN /\ file_state' = WithExit(FALSE)
          /\ pc' = "done"
     ELSE /\ pc' = "unpack"
          /\ UNCHANGED file_state
  /\ UNCHANGED <<filename, fo_data, fo_pos, path_data, path_exists, file_pos,
                 encoded_data, decoded_data, raised, events, offsets, warnings,
                 reads, helper_vars>>

\* lines 135-136: struct.unpack raises struct.error unless the buffer holds
\* exactly calcsize bytes
UnpackRecord ==
  /\ pc = "unpack"
  /\ IF encoded_data.len # CalcSizeFrom(_STRUCT_FORMAT, 1, 0)  \* of struct_format
     THEN /\ raised' = "struct.error"
          /\ file_state' = WithExit(TRUE)
          /\ pc' = "raised"
          /\ UNCHANGED decoded_data
     ELSE /\ decoded_data' = <<RecordAt(path_data, encoded_data.off)>>
          /\ pc' = "decode"
          /\ UNCHANGED <<raised, file_state>>
  /\ UNCHANGED <<filename, fo_data, fo_pos, path_data, path_exists, file_pos,
                 encoded_data, events, offsets, warnings, reads, helper_vars>>

\* lines 138-158
DecodeRecord ==
  /\ pc = "decode"
  /\ IF ~TimestampInRange(decoded_data[1].starting_time)
     THEN /\ raised' = "ValueError"
          /\ file_state' = WithExit(TRUE)
          /\ pc' = "raised"
          /\ UNCHANGED decoded_data
     ELSE /\ decoded_data' = <<EventData(decoded_data[1])>>
          /\ pc' = "produce"
          /\ UNCHANGED <<raised, file_state>>
  /\ UNCHANGED <<filename, fo_data, fo_pos, path_data, path_exists, file_pos,
                 encoded_data, events, offsets, warnings, reads, helper_vars>>

\* line 159, then back to the head of the loop
ProduceEventData ==
  /\ pc = "produce"
  /\ events' = Append(events, decoded_data[1])
  /\ offsets' = Append(offsets, encoded_data.off)
  /\ pc' = "read"
  /\ UNCHANGED <<filename, fo_data, fo_pos, path_data, path_exists, file_state,
                 file_pos, encoded_data, decoded_data, raised, warnings, reads,
                 helper_vars>>

Next ==
  \/ FilenameGate
  \/ SeekFileObject
  \/ OpenFile
  \/ ReadRecord
  \/ TestEmpty
  \/ UnpackRecord
  \/ DecodeRecord
  \/ ProduceEventData

Spec == Init /\ [][Next]_vars

Terminal == pc \in {"done", "raised"}

GateAccepted == FilenameMatch(filename).matched

Decodable(r) == TimestampInRange(r.starting_time)

(***************************************************************************)
(* C1.  For a stream that passes the filename gate and the minimum-size    *)
(* check, ParseFileObject ends with floor(length / 64) events and with     *)
(* exactly one truncated-record warning if length mod 64 > 0, none         *)
(* otherwise.  Stated for streams whose records all decode and that are    *)
(* the stream file_object holds.                                           *)
(***************************************************************************)
C1_EventsAndTruncationWarning ==
  ( /\ Terminal /\ GateAccepted /\ path_exists
    /\ fo_data = path_data
    /\ DataLen(path_data) >= _MINIMUM_FILE_SIZE
    /\ \A i \in 1 .. Len(path_data.recs) : Decodable(path_data.recs[i]) )
  => /\ Len(events) = DataLen(path_data) \div 64
     /\ Len(warnings) = (IF DataLen(path_data) % 64 > 0 THEN 1 ELSE 0)

(***************************************************************************)
(* C2.  The filename gate accepts a filename if and only if it is `acct`   *)
(* or `acct.` followed by any suffix; a rejected filename raises           *)
(* WrongParser before any byte is read and with no event produced.         *)
(***************************************************************************)
IsAcctName(name) ==
  \/ name = <<"a", "c", "c", "t">>
  \/ Len(name) >= 5 /\ SubSeq(name, 1, 5) = <<"a", "c", "c", "t", ".">>

C2_FilenameGate ==
  pc # "gate" =>
    /\ (raised # "WrongParser") <=> IsAcctName(filename)
    /\ raised = "WrongParser" => (reads = 0 /\ events = <<>>)

(***************************************************************************)
(* C3.  For every 16-bit raw, _Convert_comp_t returns ticks / 64 with      *)
(* ticks = (raw & 0x1FFF) * 8^(raw >> 13) exactly, its loop runs           *)
(* raw >> 13 <= 7 times, and raw = 0 gives 0.  ticks / 64 is written out   *)
(* per exponent, which keeps every number within 32 bits.                  *)
(***************************************************************************)
C3_CompExact ==
  pc \in {"comp_done", "time_done"} =>
    LET m == comp_t % 8192
        e == comp_t \div 8192
        r == converted_t.result
    IN  /\ converted_t.iterations = e
        /\ e <= 7
        /\ r.whole = (IF e = 0 THEN m \div 64
                      ELSE IF e = 1 THEN m \div 8
                      ELSE m * Pow(8, e - 2))
        /\ r.frac = (IF e = 0 THEN m % 64 ELSE IF e = 1 THEN (m % 8) * 8 ELSE 0)
        /\ (comp_t = 0 => r = [whole |-> 0, frac |-> 0])

C3_Witness ==
  /\ pc = "comp_done"
  /\ comp_t = 65535
  /\ converted_t = [result |-> [whole |-> 268402688, frac |-> 0], iterations |-> 7]

(***************************************************************************)
(* C4.  _ParseStructFlags returns the descriptions of exactly the table    *)
(* bits set in the value, in ascending bit order, joined by `, `; bits     *)
(* outside the table change nothing; no table bit set gives the empty      *)
(* string.                                                                 *)
(***************************************************************************)
TableBits == {1, 4, 8, 16, 32, 64, 128, 512, 1024}

Description(b) ==
  (CHOOSE i \in 1 .. Len(_ACCOUNTING_FLAGS) : _ACCOUNTING_FLAGS[i].bit = b)

OnlyTableBits(v) == BitAnd(v, 1 + 4 + 8 + 16 + 32 + 64 + 128 + 512 + 1024)

RECURSIVE AscendingFlags(_, _, _)
AscendingFlags(v, b, acc) ==
  IF b > 1024 THEN acc
  ELSE AscendingFlags(v, 2 * b,
         IF b \in TableBits /\ (v \div b) % 2 = 1
         THEN (IF acc = "" THEN "" ELSE acc \o ", ")
                \o _ACCOUNTING_FLAGS[Description(b)].description
         ELSE acc)

C4_FlagsExact ==
  pc = "flags_done" =>
    /\ flags_string = AscendingFlags(flags_value, 1, "")
    /\ ((\A b \in TableBits : (flags_value \div b) % 2 = 0) => flags_string = "")
    /\ flags_string = ParseStructFlags(OnlyTableBits(flags_value))

C4_Witness ==
  /\ pc = "flags_done"
  /\ flags_value = 9 + 2 + 256 + 2048 + Pow(2, 30)
  /\ flags_string = "fork but not exec, dumped core"

(***************************************************************************)
(* C5.  For every duration _Convert_comp_t can produce, _TimeConverstion   *)
(* prints hours = floor(total / 3600), minutes = floor((total mod 3600)    *)
(* / 60), which is within 0..59, and seconds = total mod 60.               *)
(***************************************************************************)
C5_FloorFields ==
  pc = "time_done" =>
    LET t == converted_t.result
    IN  /\ MinutesField(t) \in 0 .. 59
        /\ time_string =
             ZeroPad(Decimal(t.whole \div 3600), 2) \o ":"
             \o ZeroPad(Decimal((t.whole % 3600) \div 60), 2) \o ":"
             \o ZeroPad(Decimal(SecondsField(t) \div 100), 2) \o "."
             \o ZeroPad(Decimal(SecondsField(t) % 100), 2)

(***************************************************************************)
(* C6.  For a stream with an accepted filename and fewer than 64 bytes,    *)
(* ParseFileObject ends in a soft rejection reported exactly once, with    *)
(* no event, and no other error escapes.                                   *)
(***************************************************************************)
C6_TooSmallRejected ==
  ( /\ Terminal /\ GateAccepted /\ path_exists
    /\ DataLen(path_data) < _MINIMUM_FILE_SIZE )
  => /\ events = <<>>
     /\ \/ raised = "WrongParser" /\ warnings = <<>>
        \/ raised = "none" /\ Len(warnings) = 1

(***************************************************************************)
(* C7.  In a stream of full records, every record yields exactly one       *)
(* event or one warning, and every decodable record yields an event, also  *)
(* after a record that failed to decode.                                   *)
(***************************************************************************)
C7_EveryRecordAccounted ==
  ( /\ Terminal /\ GateAccepted /\ path_exists
    /\ path_data.tail = 0 )
  => /\ Len(events) + Len(warnings) = Len(path_data.recs)
     /\ Len(events) =
          Cardinality({i \in 1 .. Len(path_data.recs) : Decodable(path_data.recs[i])})

(***************************************************************************)
(* C8.  Events are produced in file order, one per window: the k-th event  *)
(* (from 0) is decoded from bytes [64k, 64k + 64) of the stream handed to  *)
(* ParseFileObject as file_object.                                         *)
(***************************************************************************)
C8_EventsFromFileObject ==
  \A k \in 1 .. Len(events) :
    /\ offsets[k] = 64 * (k - 1)
    /\ k <= Len(fo_data.recs)
    /\ events[k] = EventData(RecordAt(fo_data, 64 * (k - 1)))

(***************************************************************************)
(* C9.  The read loop always ends in Done: it leaves Scanning exactly when *)
(* a read returns 0 bytes or a truncated trailing record is met, and it    *)
(* ends normally.                                                          *)
(***************************************************************************)
C9_LoopEndsInDone ==
  file_state = "closed" =>
    /\ pc = "done"
    /\ encoded_data.len < _STRUCT_SIZE

(***************************************************************************)
(* C10.  The file opened for the parse is closed on every exit path: in    *)
(* every terminal state it is not open, and once closed it is never read   *)
(* or reopened.                                                            *)
(***************************************************************************)
C10_ClosedOnEveryExit ==
  /\ [](Terminal => file_state # "open")
  /\ [][file_state = "closed" => (file_state' = "closed" /\ reads' = reads)]_vars

C10_Witness ==
  /\ pc = "raised"
  /\ raised = "ValueError"
  /\ file_state = "closed"
  /\ Len(events) = 1

====
